---- MODULE Spec2Model ----
(***************************************************************************)
(* Model of django_rehive_extras.models: the archive cascade               *)
(* (ArchiveNode), the in-memory history of an instance (StateModel) and    *)
(* the save/delete guards of ArchiveModel, over a small relational store.  *)
(*                                                                         *)
(* The store holds, for every model of a schema, the rows with ids         *)
(* 1..NumRows(model).  A relation field of a schema is a record            *)
(*   [model, name, to, rname, o2o, protect, shift]                         *)
(* : the field `name` declared on `model`, a ForeignKey (o2o = FALSE) or a *)
(* OneToOneField (o2o = TRUE) to model `to`, whose reverse query name is   *)
(* `rname`, with on_delete PROTECT (protect = TRUE) or CASCADE.  The row   *)
(* with id i holds in that field the id ((i - 1 + shift) % n) + 1, n being *)
(* the number of ids of the model `to`.                                    *)
(* archive_points NULL and the empty array are both the empty sequence:    *)
(* array_append, array_remove, @> and array_length treat them alike here.  *)
(***************************************************************************)
EXTENDS Integers, Sequences, FiniteSets, TLC

\* Ids of the model A, the root of the schemas.
MaxRoots == 2
\* Ids of each dependent model (B, C).
MaxDeps == 1
\* In-memory instances alive at the same time.
NInst == 1
\* Cap on history_version (successful saves of one in-memory instance).
MaxVersion == 2

\* running: the cascades of two sessions whose bulk updates are in flight.
VARIABLES schema, db, inst, last, cascaded, running

vars == <<schema, db, inst, last, cascaded, running>>

NumRows(m) == IF m = "A" THEN MaxRoots ELSE MaxDeps

Ids(m) == 1..NumRows(m)
Handles == 1..NInst

(***************************************************************************)
(* Schemas                                                                 *)
(***************************************************************************)
Fld(m, n, t, r, o, p, s) ==
    [model |-> m, name |-> n, to |-> t, rname |-> r, o2o |-> o, protect |-> p, shift |-> s]

\* A <- B <- C, foreign keys; C.b is protected.
ChainFields == << Fld("B", "a", "A", "b", FALSE, FALSE, 0),
                  Fld("C", "b", "B", "c", FALSE, TRUE, 0) >>

\* B has two foreign keys to A (a1, a2); C has a foreign key to B.
TwoFkFields == << Fld("B", "a1", "A", "b1", FALSE, FALSE, 0),
                  Fld("B", "a2", "A", "b2", FALSE, FALSE, 1),
                  Fld("C", "b", "B", "c", FALSE, FALSE, 0) >>

\* B is a one-to-one extension of A; C has a foreign key to B.
OneToOneFields == << Fld("B", "a", "A", "b", TRUE, FALSE, 0),
                     Fld("C", "b", "B", "c", FALSE, FALSE, 0) >>

SchemaNames == {"chain", "twofk", "onetoone"}

Fields(s) ==
    CASE s = "chain" -> ChainFields
      [] s = "twofk" -> TwoFkFields
      [] s = "onetoone" -> OneToOneFields

Models == {"A", "B", "C"}

\* cls.__name__.lower()
Lower(m) ==
    CASE m = "A" -> "a"
      [] m = "B" -> "b"
      [] m = "C" -> "c"

Points == {Lower(m) : m \in Models}

\* issubclass(f.related_model, ArchiveModel): every model of the schemas is one.
IsArchiveModel(s, m) == m \in Models

\* _must_be_unarchived_to_modify, _must_be_archived_to_delete (class attributes).
MustBeUnarchivedToModify(s, m) == ~(s = "twofk" /\ m = "C")

MustBeArchivedToDelete(s, m) == ~(s = "twofk" /\ m = "C")

\* The models that declare one more concrete field, data.
HasData(s, m) == m = "C"

Keys == {key \in Models \X (1..(MaxRoots + MaxDeps)) : key[2] \in Ids(key[1])}

\* The id stored in relation field f of the row with id i.
FkOf(f, i) == ((i - 1 + f.shift) % NumRows(f.to)) + 1

SeqToSet(q) == {q[k] : k \in 1..Len(q)}

(***************************************************************************)
(* ArchiveNode                                                             *)
(***************************************************************************)
\* model._meta.get_fields(): the reverse relations to the model, then its own
\* relation fields.  has_field is hasattr(f, 'field').
RelOf(f) ==
    [related_model |-> f.model, one_to_many |-> ~f.o2o, one_to_one |-> f.o2o,
     has_field |-> TRUE, field_name |-> f.name, remote_name |-> f.rname]

FwdOf(f) ==
    [related_model |-> f.to, one_to_many |-> FALSE, one_to_one |-> f.o2o,
     has_field |-> FALSE, field_name |-> f.name, remote_name |-> f.rname]

GetFields(s, m) ==
    LET rev == SelectSeq(Fields(s), LAMBDA f: f.to = m)
        fwd == SelectSeq(Fields(s), LAMBDA f: f.model = m)
    IN  [i \in 1..Len(rev) |-> RelOf(rev[i])] \o [i \in 1..Len(fwd) |-> FwdOf(fwd[i])]

\* _get_f_key(model, f)
GetFKey(m, f) == <<Lower(m), Lower(f.related_model)>>

RootNode(m) == [model |-> m, parent |-> 0, relation_field |-> "None"]

\* The fields expand() keeps for a node of model m, given parsed_rel_fields.
ExpandFilter(s, m, parsed) ==
    SelectSeq(GetFields(s, m),
              LAMBDA f: /\ f.related_model # m
                        /\ GetFKey(m, f) \notin SeqToSet(parsed)
                        /\ (f.one_to_many \/ f.one_to_one)
                        /\ IsArchiveModel(s, f.related_model))

\* expand(): the tree is the sequence of its nodes in creation order, the root
\* first; a node names its parent by position.  st = [nodes, parsed].
RECURSIVE ExpandNode(_, _, _), ExpandLoop(_, _, _, _, _)
ExpandNodeRootOnly(s, idx, st) ==
    IF idx > 1 THEN st
    ELSE ExpandLoop(s, idx, ExpandFilter(s, st.nodes[idx].model, st.parsed), 1, st)

ExpandNode(s, idx, st) ==
    ExpandLoop(s, idx, ExpandFilter(s, st.nodes[idx].model, st.parsed), 1, st)

ExpandLoopChecksParsed(s, idx, fields, k, st) ==
    IF k > Len(fields) THEN st
    ELSE IF GetFKey(st.nodes[idx].model, fields[k]) \in SeqToSet(st.parsed)
    THEN ExpandLoop(s, idx, fields, k + 1, st)
    ELSE LET f == fields[k]
             name == IF f.has_field THEN f.field_name ELSE f.remote_name
             node == [model |-> f.related_model, parent |-> idx, relation_field |-> name]
             st1 == [nodes |-> Append(st.nodes, node),
                     parsed |-> Append(st.parsed, GetFKey(st.nodes[idx].model, f))]
         IN ExpandLoop(s, idx, fields, k + 1, ExpandNode(s, Len(st1.nodes), st1))

ExpandLoop(s, idx, fields, k, st) ==
    IF k > Len(fields) THEN st
    ELSE LET f == fields[k]
             name == IF f.has_field THEN f.field_name ELSE f.remote_name
             node == [model |-> f.related_model, parent |-> idx, relation_field |-> name]
             st1 == [nodes |-> Append(st.nodes, node),
                     parsed |-> Append(st.parsed, GetFKey(st.nodes[idx].model, f))]
         IN ExpandLoop(s, idx, fields, k + 1, ExpandNode(s, Len(st1.nodes), st1))

Expand(s, m) == ExpandNode(s, 1, [nodes |-> <<RootNode(m)>>, parsed |-> <<>>]).nodes

\* _get_relation_fields(): the relation names from node k up to the root.
RECURSIVE GetRelationFields(_, _)
GetRelationFields(nodes, k) ==
    IF nodes[k].parent = 0 THEN <<>>
    ELSE <<nodes[k].relation_field>> \o GetRelationFields(nodes, nodes[k].parent)

(***************************************************************************)
(* The store                                                               *)
(***************************************************************************)
NoRow == [exists |-> FALSE, archived |-> FALSE, archive_points |-> <<>>, data |-> 0]

Contains(q, p) == \E k \in 1..Len(q) : q[k] = p

\* array_remove(archive_points, point): every occurrence goes.
ArrayRemove(q, p) == SelectSeq(q, LAMBDA e: e # p)

\* array_append(archive_points, point)
ArrayAppend(q, p) == Append(q, p)

\* The relation name n of model m leads to this model.
RelModel(s, m, n) ==
    LET f == CHOOSE g \in SeqToSet(Fields(s)) :
                 (g.model = m /\ g.name = n) \/ (g.to = m /\ g.rname = n)
    IN IF f.model = m /\ f.name = n THEN f.to ELSE f.model

\* The ids that the lookup n of the row (m, i) joins to.  A forward field joins
\* to the row it names (the last lookup of a filter, n__id, compares the column
\* and joins nothing); a reverse name joins to the rows that name (m, i).
RelIds(s, d, m, n, i, isLast) ==
    LET f == CHOOSE g \in SeqToSet(Fields(s)) :
                 (g.model = m /\ g.name = n) \/ (g.to = m /\ g.rname = n)
    IN IF f.model = m /\ f.name = n
       THEN {j \in {FkOf(f, i)} : isLast \/ d[<<f.to, j>>].exists}
       ELSE {j \in Ids(f.model) : d[<<f.model, j>>].exists /\ FkOf(f, j) = i}

\* The row (m, i) satisfies names[1]__names[2]__...__id = x.
RECURSIVE Leads(_, _, _, _, _, _)
Leads(s, d, m, names, i, x) ==
    IF names = <<>> THEN i = x
    ELSE \E j \in RelIds(s, d, m, Head(names), i, Len(names) = 1) :
             Leads(s, d, RelModel(s, m, Head(names)), Tail(names), j, x)

\* node.model.objects.filter(**filters) for node k of the tree and instance id x.
QuerysetFilter(s, d, nodes, k, x) ==
    {key \in Keys : /\ key[1] = nodes[k].model
                    /\ d[key].exists
                    /\ Leads(s, d, key[1], GetRelationFields(nodes, k), key[2], x)}

ArchiveRowReplacesPoints(row, point) ==
    [row EXCEPT !.archived = TRUE, !.archive_points = <<point>>]

ArchiveRowAlwaysAppends(row, point) ==
    [row EXCEPT !.archived = TRUE, !.archive_points = ArrayAppend(@, point)]

\* update_queryset, archived is True, on one row.
ArchiveRow(row, point) ==
    [row EXCEPT !.archived = TRUE,
                !.archive_points = IF Contains(@, point) THEN @ ELSE ArrayAppend(@, point)]

UnarchiveRowAnyLength(row, point) ==
    [row EXCEPT !.archived = IF Contains(row.archive_points, point) THEN FALSE ELSE @,
                !.archive_points = ArrayRemove(@, point)]

\* update_queryset, archived is False, on one row.
UnarchiveRow(row, point) ==
    [row EXCEPT !.archived = IF Contains(row.archive_points, point)
                                  /\ Len(row.archive_points) = 1
                             THEN FALSE ELSE @,
                !.archive_points = ArrayRemove(@, point)]

\* update_queryset(queryset, archived, point): one bulk update.
UpdateQueryset(d, queryset, archived, point) ==
    [key \in Keys |->
        IF key \in queryset
        THEN IF archived THEN ArchiveRow(d[key], point) ELSE UnarchiveRow(d[key], point)
        ELSE d[key]]

\* update(): the store after the bulk updates of the first n non-root nodes, in
\* the order update() walks them (a node, then its subtree, then its siblings).
RECURSIVE NodeUpdateUpTo(_, _, _, _, _, _, _)
NodeUpdateUpTo(s, d, nodes, x, archived, point, n) ==
    IF n = 0 THEN d
    ELSE LET before == NodeUpdateUpTo(s, d, nodes, x, archived, point, n - 1)
         IN UpdateQueryset(before, QuerysetFilter(s, before, nodes, n + 1, x), archived, point)

NodeUpdate(s, d, nodes, x, archived, point) ==
    NodeUpdateUpTo(s, d, nodes, x, archived, point, Len(nodes) - 1)

\* node.children: the nodes expand() appended to node idx, in that order.
ChildNodes(nodes, idx) == SelectSeq([k \in 1..Len(nodes) |-> k], LAMBDA k: nodes[k].parent = idx)

\* update(instance, archived) as the code runs it.  st = [d, calls]: the store,
\* and the update_queryset() calls issued so far, each with the node, the
\* archived flag, the point, the rows its queryset selects and those it changes.  The point is
\* computed from the instance in every call of update().
RECURSIVE UpdateNode(_, _, _, _, _, _)
RECURSIVE UpdateLoop(_, _, _, _, _, _, _, _)

UpdateLoopStopsWithoutMatch(s, nodes, idx, kids, j, key, archived, st) ==
    IF j > Len(kids) THEN st
    ELSE LET point == Lower(key[1])
             queryset == QuerysetFilter(s, st.d, nodes, kids[j], key[2])
             st1 == [d |-> UpdateQueryset(st.d, queryset, archived, point),
                     calls |-> Append(st.calls, [node |-> kids[j], archived |-> archived,
                                                 point |-> point, rows |-> queryset,
                                                 changed |-> {k \in queryset :
                                                     UpdateQueryset(st.d, queryset, archived, point)[k] # st.d[k]}])]
         IN UpdateLoop(s, nodes, idx, kids, j + 1, key, archived,
                       IF queryset = {} THEN st1
                       ELSE UpdateNode(s, nodes, kids[j], key, archived, st1))

UpdateLoop(s, nodes, idx, kids, j, key, archived, st) ==
    IF j > Len(kids) THEN st
    ELSE LET point == Lower(key[1])
             queryset == QuerysetFilter(s, st.d, nodes, kids[j], key[2])
             st1 == [d |-> UpdateQueryset(st.d, queryset, archived, point),
                     calls |-> Append(st.calls, [node |-> kids[j], archived |-> archived,
                                                 point |-> point, rows |-> queryset,
                                                 changed |-> {k \in queryset :
                                                     UpdateQueryset(st.d, queryset, archived, point)[k] # st.d[k]}])]
         IN UpdateLoop(s, nodes, idx, kids, j + 1, key, archived,
                       UpdateNode(s, nodes, kids[j], key, archived, st1))

UpdateNode(s, nodes, idx, key, archived, st) ==
    UpdateLoop(s, nodes, idx, ChildNodes(nodes, idx), 1, key, archived, st)

\* node.update(instance, archived) on the expanded root.
Update(s, d, key, archived) ==
    UpdateNode(s, Expand(s, key[1]), 1, key, archived, [d |-> d, calls |-> <<>>])

\* Every row one of the cascade's bulk updates selects.
CascadeRows(s, d, m, x) ==
    LET nodes == Expand(s, m)
    IN UNION {QuerysetFilter(s, d, nodes, k, x) : k \in 2..Len(nodes)}

(***************************************************************************)
(* In-memory instances (StateModel)                                        *)
(***************************************************************************)
\* The value of a field that the query deferred: the attribute is not in __dict__.
Deferred == 0 - 2

\* The value of the cached property earliest_version in __dict__ is named by
\* the history key of the snapshot; NotCached when __dict__ has none.
NotCached == 0 - 1

\* assigned, persisted and direct record, for the properties, whether a
\* declared field was assigned since the version began, the archived value the
\* instance had when it was loaded or last saved, and the rows that were
\* archived with empty archive_points when the instance's archive cascade, not
\* undone yet, reached them.
NoInstance ==
    [live |-> FALSE, model |-> "A", id |-> 0, adding |-> FALSE, archived |-> FALSE,
     archive_points |-> <<>>, data |-> 0, history_version |-> 0, history |-> <<>>,
     earliest |-> NotCached, assigned |-> FALSE, persisted |-> FALSE, direct |-> {}]

\* copy_model_instance(instance): the concrete fields of the instance that are
\* in its __dict__.
CopyModelInstance(i) ==
    [archived |-> i.archived, archive_points |-> i.archive_points, data |-> i.data]

\* history is a dict: its items in insertion order.
HasVersion(i, v) == \E k \in 1..Len(i.history) : i.history[k].version = v

CaptureHistoryAlways(i) ==
    [i EXCEPT !.history =
        Append(@, [version |-> i.history_version, obj |-> CopyModelInstance(i)])]

\* capture_history(): the instance afterwards.
CaptureHistory(i) ==
    IF HasVersion(i, i.history_version) THEN i
    ELSE [i EXCEPT !.history =
              Append(@, [version |-> i.history_version, obj |-> CopyModelInstance(i)])]

\* latest_version / original: the instance afterwards (an empty history is
\* captured), and the object returned.
AfterOriginal(i) == IF i.history = <<>> THEN CaptureHistory(i) ELSE i

Original(i) == LET j == AfterOriginal(i) IN j.history[Len(j.history)].obj

\* name in self.__dict__: a field the query deferred is not, until it is assigned.
InDict(i, name) == name = "data" => i.data # Deferred

\* __setattr__(name, value) of a model field: the instance before the value is stored.
BeforeSetattr(i, name) ==
    IF i.adding THEN i
    ELSE [(IF InDict(i, name) THEN CaptureHistory(i) ELSE i) EXCEPT !.assigned = TRUE]

\* history[v]
Snapshot(i, v) == (CHOOSE e \in SeqToSet(i.history) : e.version = v).obj

\* earliest_version: the key of the snapshot it returns, and the instance
\* afterwards (cached_property stores what the getter returned in __dict__).
EarliestKey(i) ==
    IF i.earliest # NotCached THEN i.earliest
    ELSE IF HasVersion(i, 0) THEN 0
    ELSE i.history_version

AfterEarliest(i) ==
    IF i.earliest # NotCached THEN i
    ELSE [(IF HasVersion(i, 0) THEN i ELSE CaptureHistory(i))
             EXCEPT !.earliest = EarliestKey(i)]

\* The cached properties in the __dict__ of the class of model m: the models
\* of the schemas declare none, earliest_version is in StateModel.__dict__.
OwnCachedProperties(m) == {}

\* purge_cached_properties()
PurgeCachedProperties(i) ==
    IF "earliest_version" \in OwnCachedProperties(i.model)
    THEN [i EXCEPT !.earliest = NotCached]
    ELSE i

SnapshotStateOfInstance ==
    [adding |-> FALSE, can_be_modified_on_db |-> TRUE, has_history |-> TRUE]

\* What copy_model_instance and capture_history give a snapshot besides the
\* concrete fields: _state.adding, can_be_modified_on_db, and no __init__ (no
\* history, no history_version).
SnapshotState == [adding |-> FALSE, can_be_modified_on_db |-> FALSE, has_history |-> FALSE]

(***************************************************************************)
(* ArchiveModel.save / delete                                              *)
(***************************************************************************)
Ok == "ok"
ParentError == "CannotModifyObjectWithArchivedParentError"
ArchivedError == "CannotModifyArchivedObjectError"
UnarchivedError == "CannotDeleteUnarchivedObjectError"
DeleteError == "CannotDeleteObjectError"
StoreError == "DatabaseError"
AttributeError == "AttributeError"
RuntimeError == "RuntimeError"

\* What the last step was: the operation, its instance and inputs, its outcome,
\* the cascade it ran, the other rows it changed, whether it repeated the
\* cascade of the step before it, and whether its row write was an INSERT.
Idle == [op |-> "none", h |-> 0, key |-> <<"A", 0>>, force |-> FALSE, failAt |-> 0,
         outcome |-> Ok, casc |-> "none", touched |-> {}, rerun |-> FALSE,
         inserted |-> FALSE, ret |-> NotCached, calls |-> <<>>]

\* The ids the store can give a new row of model m.
FreeIds(d, in, m) ==
    {j \in Ids(m) : /\ ~d[<<m, j>>].exists
                 /\ \A h \in Handles : ~(in[h].live /\ in[h].model = m /\ in[h].id = j)}

\* The row that save() writes for instance i.
RowKey(d, in, i) ==
    IF i.adding
    THEN <<i.model, CHOOSE j \in FreeIds(d, in, i.model) : \A k \in FreeIds(d, in, i.model) : j <= k>>
    ELSE <<i.model, i.id>>

\* The store refuses an INSERT whose foreign keys name no row.  The foreign key
\* constraints are DEFERRABLE INITIALLY DEFERRED: it refuses when the
\* transaction commits.
IntegrityOk(s, d, key) ==
    \/ d[key].exists
    \/ \A f \in SeqToSet(Fields(s)) : f.model = key[1] => d[<<f.to, FkOf(f, key[2])>>].exists

\* Model.save(): UPDATE the row, INSERT it when no row was updated.  A deferred
\* field is left out of the UPDATE.
WriteRow(d, key, i) ==
    [d EXCEPT ![key] = [exists |-> TRUE, archived |-> i.archived,
                        archive_points |-> i.archive_points,
                        data |-> IF i.data = Deferred THEN d[key].data ELSE i.data]]

\* Which transition save() sees (lines 395-410).
Transition(i) ==
    IF i.adding \/ i.archived = Original(i).archived THEN "none"
    ELSE IF i.archived THEN "archive" ELSE "unarchive"

SaveGuardChecksNew(s, i, force) ==
    IF Transition(i) = "unarchive" /\ i.archive_points # <<>> THEN ParentError
    ELSE IF Transition(i) = "none" /\ ~force
            /\ MustBeUnarchivedToModify(s, i.model) /\ i.archived THEN ArchivedError
    ELSE Ok

SaveGuardForceUnarchives(s, i, force) ==
    IF i.adding THEN Ok
    ELSE IF Transition(i) = "unarchive" /\ i.archive_points # <<>> /\ ~force THEN ParentError
    ELSE IF Transition(i) = "none" /\ ~force
            /\ MustBeUnarchivedToModify(s, i.model) /\ i.archived THEN ArchivedError
    ELSE Ok

SaveGuardIgnoresForce(s, i, force) ==
    IF i.adding THEN Ok
    ELSE IF Transition(i) = "unarchive" /\ i.archive_points # <<>> THEN ParentError
    ELSE IF Transition(i) = "none"
            /\ MustBeUnarchivedToModify(s, i.model) /\ i.archived THEN ArchivedError
    ELSE Ok

\* The archive error save() raises before any statement, or Ok.
SaveGuard(s, i, force) ==
    IF i.adding THEN Ok
    ELSE IF Transition(i) = "unarchive" /\ i.archive_points # <<>> THEN ParentError
    ELSE IF Transition(i) = "none" /\ ~force
            /\ MustBeUnarchivedToModify(s, i.model) /\ i.archived THEN ArchivedError
    ELSE Ok

\* The bulk updates save() issues before it writes the instance's row.
NLevels(s, i) == IF Transition(i) = "none" THEN 0 ELSE Len(Expand(s, i.model)) - 1

AtomicKeepsPartial(before, after, raised) == after

\* transaction.atomic: what is persisted when the block ends.
Atomic(before, after, raised) == IF raised THEN before ELSE after

\* save(force): failAt = 0, or the statement at which the store fails.  With a
\* deferred field save() passes update_fields, and fails when no row is updated.
\* [outcome, db, inst, key, casc], inst being the instance afterwards.  When
\* every statement succeeds, StateModel.save() has incremented history_version
\* before the atomic block commits.
SaveResult(s, d, in, i, force, failAt) ==
    LET i1 == IF i.adding THEN i ELSE AfterOriginal(i)
        guard == SaveGuard(s, i, force)
        casc == Transition(i)
        n == NLevels(s, i)
        done == IF failAt = 0 THEN n ELSE failAt - 1
        cascDb == NodeUpdateUpTo(s, d, Expand(s, i.model), i.id, casc = "archive",
                                 Lower(i.model), done)
        key == RowKey(d, in, i)
        written == failAt = 0 /\ (i.data = Deferred => cascDb[key].exists)
        committed == written /\ IntegrityOk(s, cascDb, key)
        work == IF written THEN WriteRow(cascDb, key, i) ELSE cascDb
    IN IF guard # Ok
       THEN [outcome |-> guard, db |-> Atomic(d, d, TRUE), inst |-> i1, key |-> key,
             casc |-> "none"]
       ELSE [outcome |-> IF committed THEN Ok ELSE StoreError,
             db |-> Atomic(d, work, ~committed),
             inst |-> IF written
                      THEN [i1 EXCEPT !.adding = FALSE, !.id = key[2],
                                      !.history_version = @ + 1,
                                      !.assigned = FALSE,
                                      !.persisted = IF committed THEN i.archived ELSE @,
                                      !.direct =
                                          IF committed /\ casc = "archive"
                                          THEN {k \in CascadeRows(s, d, i.model, i.id) \ {key} :
                                                   d[k].archived /\ d[k].archive_points = <<>>}
                                          ELSE IF committed /\ casc = "unarchive" THEN {}
                                          ELSE @]
                      ELSE i1,
             key |-> key,
             casc |-> casc]

\* The rows Model.delete() collects: the instance's, and every row that names
\* a collected row through an on_delete=CASCADE field.
RECURSIVE Collect(_, _, _)
Collect(s, d, rows) ==
    LET more == {key \in Keys :
                    /\ d[key].exists
                    /\ \E f \in SeqToSet(Fields(s)) :
                           /\ f.model = key[1] /\ ~f.protect
                           /\ <<f.to, FkOf(f, key[2])>> \in rows}
    IN IF more \subseteq rows THEN rows ELSE Collect(s, d, rows \cup more)

\* ProtectedError: a row names a collected row through an on_delete=PROTECT field.
Protected(s, d, rows) ==
    \E key \in Keys :
        /\ d[key].exists
        /\ \E f \in SeqToSet(Fields(s)) :
               /\ f.model = key[1] /\ f.protect
               /\ <<f.to, FkOf(f, key[2])>> \in rows

\* The error delete() raises, or Ok.
DeleteGuard(s, i, force) ==
    IF ~force /\ MustBeArchivedToDelete(s, i.model) /\ ~i.archived THEN UnarchivedError
    ELSE Ok

DeleteResultRawError(s, d, i, force) ==
    LET rows == Collect(s, d, {<<i.model, i.id>>})
    IN IF DeleteGuard(s, i, force) # Ok
       THEN [outcome |-> DeleteGuard(s, i, force), db |-> d]
       ELSE IF Protected(s, d, rows)
       THEN [outcome |-> "ProtectedError", db |-> d]
       ELSE [outcome |-> Ok, db |-> [key \in Keys |-> IF key \in rows THEN NoRow ELSE d[key]]]

\* delete(force): [outcome, db].
DeleteResult(s, d, i, force) ==
    LET rows == Collect(s, d, {<<i.model, i.id>>})
    IN IF DeleteGuard(s, i, force) # Ok
       THEN [outcome |-> DeleteGuard(s, i, force), db |-> d]
       ELSE IF Protected(s, d, rows)
       THEN [outcome |-> DeleteError, db |-> d]
       ELSE [outcome |-> Ok, db |-> [key \in Keys |-> IF key \in rows THEN NoRow ELSE d[key]]]

(***************************************************************************)
(* The state machine                                                       *)
(***************************************************************************)
\* The two sessions whose cascades run at the same time.
Sessions == {"p", "q"}

\* node.update(instance, archived) of the instance with key `key`: next is the
\* node of the expanded tree whose bulk update comes next.
CascadeOf(key, archived) == [key |-> key, archived |-> archived, next |-> 2]

\* No cascade is in flight.
NotRunning ==
    [on |-> FALSE, base |-> [key \in Keys |-> NoRow],
     c |-> [t \in Sessions |-> CascadeOf(<<"A", 0>>, FALSE)], order |-> <<>>]

Init ==
    /\ running = NotRunning
    /\ schema \in SchemaNames
    /\ db = [key \in Keys |-> [exists |-> TRUE, archived |-> FALSE,
                               archive_points |-> <<>>, data |-> 0]]
    /\ inst = [h \in Handles |-> NoInstance]
    /\ last = Idle
    /\ cascaded = {}

\* Model.objects.get(id=...): from_db, then StateModel.__init__.
FromDb(d, key) ==
    [live |-> TRUE, model |-> key[1], id |-> key[2], adding |-> FALSE,
     archived |-> d[key].archived, archive_points |-> d[key].archive_points,
     data |-> d[key].data, history_version |-> 0, history |-> <<>>,
     earliest |-> NotCached, assigned |-> FALSE, persisted |-> d[key].archived, direct |-> {}]

Load(h, key) ==
    /\ ~inst[h].live
    /\ db[key].exists
    /\ inst' = [inst EXCEPT ![h] = FromDb(db, key)]
    /\ last' = Idle
    /\ UNCHANGED <<schema, db, cascaded, running>>

\* Model.objects.defer('data').get(id=...)
LoadDeferred(h, key) ==
    /\ ~inst[h].live
    /\ db[key].exists
    /\ HasData(schema, key[1])
    /\ inst' = [inst EXCEPT ![h] = [FromDb(db, key) EXCEPT !.data = Deferred]]
    /\ last' = Idle
    /\ UNCHANGED <<schema, db, cascaded, running>>

\* Model(archived=...): a new instance, not persisted yet.
New(h, m, archived) ==
    /\ ~inst[h].live
    /\ FreeIds(db, inst, m) # {}
    /\ inst' = [inst EXCEPT ![h] =
          [live |-> TRUE, model |-> m, id |-> 0, adding |-> TRUE,
           archived |-> archived, archive_points |-> <<>>,
           data |-> 0, history_version |-> 0, history |-> <<>>,
           earliest |-> NotCached, assigned |-> FALSE, persisted |-> FALSE, direct |-> {}]]
    /\ last' = Idle
    /\ UNCHANGED <<schema, db, cascaded, running>>

\* Model(archived=..., archive_points=[...]): a new instance that is given
\* archive_points, not persisted yet.
NewWithPoints(h, m, archived, points) ==
    /\ ~inst[h].live
    /\ FreeIds(db, inst, m) # {}
    /\ inst' = [inst EXCEPT ![h] =
          [live |-> TRUE, model |-> m, id |-> 0, adding |-> TRUE,
           archived |-> archived, archive_points |-> points,
           data |-> 0, history_version |-> 0, history |-> <<>>,
           earliest |-> NotCached, assigned |-> FALSE, persisted |-> FALSE, direct |-> {}]]
    /\ last' = Idle
    /\ UNCHANGED <<schema, db, cascaded, running>>

\* instance.archived = value
SetArchived(h, value) ==
    /\ inst[h].live
    /\ inst[h].history_version < MaxVersion
    /\ inst' = [inst EXCEPT ![h] =
          [BeforeSetattr(inst[h], "archived") EXCEPT !.archived = value]]
    /\ last' = Idle
    /\ UNCHANGED <<schema, db, cascaded, running>>

\* instance.data = value, on a model that declares the field.
SetData(h, value) ==
    /\ inst[h].live
    /\ inst[h].history_version < MaxVersion
    /\ HasData(schema, inst[h].model)
    /\ inst' = [inst EXCEPT ![h] = [BeforeSetattr(inst[h], "data") EXCEPT !.data = value]]
    /\ last' = Idle
    /\ UNCHANGED <<schema, db, cascaded, running>>

\* refresh_from_db(): every concrete field that is not deferred is set from the
\* row with setattr.
Refresh(h) ==
    LET key == <<inst[h].model, inst[h].id>>
    IN /\ inst[h].live
       /\ inst[h].history_version < MaxVersion
       /\ ~inst[h].adding
       /\ db[key].exists
       /\ inst' = [inst EXCEPT ![h] =
             [BeforeSetattr(PurgeCachedProperties(inst[h]), "archived")
                 EXCEPT !.archived = db[key].archived,
                        !.archive_points = db[key].archive_points,
                        !.data = IF @ = Deferred THEN @ ELSE db[key].data]]
       /\ last' = [Idle EXCEPT !.op = "refresh_from_db", !.h = h, !.key = key]
       /\ UNCHANGED <<schema, db, cascaded, running>>

\* The program drops the instance.
Release(h) ==
    /\ inst[h].live
    /\ inst' = [inst EXCEPT ![h] = NoInstance]
    /\ last' = Idle
    /\ UNCHANGED <<schema, db, cascaded, running>>

\* Which ancestor's archive cascade reached which row, for the cascades that
\* have not been undone by the ancestor's unarchive cascade.
CascadedAfter(c, r, hit) ==
    IF r.outcome = Ok /\ r.casc = "archive" THEN c \cup {<<r.key, key>> : key \in hit}
    ELSE IF r.outcome = Ok /\ r.casc = "unarchive" THEN {p \in c : p[1] # r.key}
    ELSE c

\* instance.save(force)
Save(h, force, failAt) ==
    LET i == inst[h]
    IN /\ i.live
       /\ i.history_version < MaxVersion
       /\ i.adding => FreeIds(db, inst, i.model) # {}
       /\ failAt <= NLevels(schema, i) + 1
       /\ SaveGuard(schema, i, force) # Ok => failAt = 0
       /\ \E r \in {SaveResult(schema, db, inst, i, force, failAt)} :
          \E hit \in {IF r.outcome = Ok /\ r.casc # "none"
                      THEN CascadeRows(schema, db, i.model, i.id) \ {r.key} ELSE {}} :
             /\ db' = r.db
             /\ inst' = [inst EXCEPT ![h] = r.inst]
             /\ last' = [op |-> "save", h |-> h, key |-> r.key, force |-> force,
                         failAt |-> failAt, outcome |-> r.outcome, casc |-> r.casc,
                         touched |-> {key \in Keys \ {r.key} : r.db[key] # db[key]},
                         rerun |-> /\ last.op = "save" /\ last.outcome = Ok /\ last.h = h
                                   /\ r.outcome = Ok /\ r.casc # "none" /\ last.casc = r.casc,
                         inserted |-> r.outcome = Ok /\ ~db[r.key].exists, ret |-> NotCached,
                         calls |-> IF r.outcome = Ok /\ r.casc # "none"
                                   THEN Update(schema, db, r.key, r.casc = "archive").calls
                                   ELSE <<>>]
             /\ cascaded' = CascadedAfter(cascaded, r, hit)
       /\ UNCHANGED <<schema, running>>

\* Another session loads the row, assigns archived and saves; its instance is
\* not kept.  Only a save that commits shows.
OtherSave(key, value) ==
    LET i == [BeforeSetattr(FromDb(db, key), "archived") EXCEPT !.archived = value]
    IN /\ db[key].exists
       /\ value # db[key].archived
       /\ \E r \in {SaveResult(schema, db, inst, i, FALSE, 0)} :
             /\ r.outcome = Ok
             /\ db' = r.db
             /\ cascaded' = CascadedAfter(cascaded, r,
                                          CascadeRows(schema, db, i.model, i.id) \ {key})
       /\ last' = Idle
       /\ UNCHANGED <<schema, inst, running>>

\* The other session saves the row that instance h holds.
OtherSaveHeld(h, value) ==
    /\ inst[h].live
    /\ ~inst[h].adding
    /\ OtherSave(<<inst[h].model, inst[h].id>>, value)

\* instance.delete(force); a deleted instance is not used again.
Delete(h, force) ==
    LET i == inst[h]
    IN /\ i.live
       /\ ~i.adding
       /\ \E r \in {DeleteResult(schema, db, i, force)} :
             /\ db' = r.db
             /\ inst' = IF r.outcome = Ok THEN [inst EXCEPT ![h] = NoInstance] ELSE inst
             /\ last' = [op |-> "delete", h |-> h, key |-> <<i.model, i.id>>, force |-> force,
                         failAt |-> 0, outcome |-> r.outcome, casc |-> "none", touched |-> {},
                         rerun |-> FALSE, inserted |-> FALSE, ret |-> NotCached, calls |-> <<>>]
             /\ cascaded' = {p \in cascaded : r.db[p[1]].exists /\ r.db[p[2]].exists}
       /\ UNCHANGED <<schema, running>>

\* snapshot.save(force), snapshot being a history object: [outcome, db].
SnapshotSaveResult(s, d, key, obj, force) ==
    LET st == SnapshotState
    IN IF ~st.adding /\ ~st.has_history
       THEN [outcome |-> AttributeError, db |-> Atomic(d, d, TRUE)]
       ELSE IF ~st.adding /\ ~force /\ MustBeUnarchivedToModify(s, key[1]) /\ obj.archived
       THEN [outcome |-> ArchivedError, db |-> Atomic(d, d, TRUE)]
       ELSE IF ~st.can_be_modified_on_db
       THEN [outcome |-> RuntimeError, db |-> Atomic(d, d, TRUE)]
       ELSE [outcome |-> Ok, db |-> Atomic(d, WriteRow(d, key, obj), FALSE)]

\* snapshot.delete(force): [outcome, db].
SnapshotDeleteResult(s, d, key, obj, force) ==
    LET st == SnapshotState
        rows == Collect(s, d, {key})
    IN IF ~force /\ MustBeArchivedToDelete(s, key[1]) /\ ~obj.archived
       THEN [outcome |-> UnarchivedError, db |-> d]
       ELSE IF ~st.can_be_modified_on_db
       THEN [outcome |-> RuntimeError, db |-> d]
       ELSE IF Protected(s, d, rows)
       THEN [outcome |-> DeleteError, db |-> d]
       ELSE [outcome |-> Ok, db |-> [k \in Keys |-> IF k \in rows THEN NoRow ELSE d[k]]]

\* instance.earliest_version
ReadEarliest(h) ==
    /\ inst[h].live
    /\ inst' = [inst EXCEPT ![h] = AfterEarliest(inst[h])]
    /\ last' = [Idle EXCEPT !.op = "earliest_version", !.h = h,
                            !.key = <<inst[h].model, inst[h].id>>,
                            !.ret = EarliestKey(inst[h])]
    /\ UNCHANGED <<schema, db, cascaded, running>>

\* instance.capture_history(); inserted tells whether it stored a snapshot.
Capture(h) ==
    /\ inst[h].live
    /\ inst' = [inst EXCEPT ![h] = CaptureHistory(inst[h])]
    /\ last' = [Idle EXCEPT !.op = "capture_history", !.h = h,
                            !.key = <<inst[h].model, inst[h].id>>,
                            !.ret = inst[h].history_version,
                            !.inserted = ~HasVersion(inst[h], inst[h].history_version)]
    /\ UNCHANGED <<schema, db, cascaded, running>>

\* instance.history[v].save(force)
SnapshotSave(h, v, force) ==
    LET key == <<inst[h].model, inst[h].id>>
        r == SnapshotSaveResult(schema, db, key, Snapshot(inst[h], v), force)
    IN /\ inst[h].live
       /\ HasVersion(inst[h], v)
       /\ db' = r.db
       /\ last' = [Idle EXCEPT !.op = "snapshot.save", !.h = h, !.key = key,
                               !.force = force, !.outcome = r.outcome, !.ret = v]
       /\ UNCHANGED <<schema, inst, cascaded, running>>

\* instance.history[v].delete(force)
SnapshotDelete(h, v, force) ==
    LET key == <<inst[h].model, inst[h].id>>
        r == SnapshotDeleteResult(schema, db, key, Snapshot(inst[h], v), force)
    IN /\ inst[h].live
       /\ HasVersion(inst[h], v)
       /\ db' = r.db
       /\ last' = [Idle EXCEPT !.op = "snapshot.delete", !.h = h, !.key = key,
                               !.force = force, !.outcome = r.outcome, !.ret = v]
       /\ UNCHANGED <<schema, inst, cascaded, running>>

\* The statements one save() can issue: the bulk updates, then its own row.
MaxStatements == 4

Next ==
    \/ \E h \in Handles, key \in Keys : Load(h, key)
    \/ \E h \in Handles, m \in Models, archived \in BOOLEAN : New(h, m, archived)
    \/ \E h \in Handles, value \in BOOLEAN : SetArchived(h, value)
    \/ \E h \in Handles, value \in 0..1 : SetData(h, value)
    \/ \E h \in Handles : Refresh(h)
    \/ \E h \in Handles : Release(h)
    \/ \E h \in Handles, force \in BOOLEAN, failAt \in 0..MaxStatements : Save(h, force, failAt)
    \/ \E h \in Handles, force \in BOOLEAN : Delete(h, force)

\* One session works on the store.
Spec == Init /\ [][Next]_vars

\* A second session archives and unarchives rows of the chain schema meanwhile.
InitShared == Init /\ schema = "chain"

NextShared ==
    \/ \E h \in Handles, key \in Keys : Load(h, key)
    \/ \E h \in Handles, value \in BOOLEAN : SetArchived(h, value)
    \/ \E h \in Handles : Refresh(h)
    \/ \E h \in Handles : Release(h)
    \/ \E h \in Handles, force \in BOOLEAN, failAt \in 0..MaxStatements : Save(h, force, failAt)
    \/ \E key \in Keys, value \in BOOLEAN : OtherSave(key, value)

SpecShared == InitShared /\ [][NextShared]_vars

\* The program creates C rows and reads and captures the history of its
\* instances, while a second session saves the rows the program holds.
NextHistory ==
    \/ \E h \in Handles, key \in Keys : Load(h, key)
    \/ \E h \in Handles, key \in Keys : LoadDeferred(h, key)
    \/ \E h \in Handles, m \in Models, archived \in BOOLEAN : New(h, m, archived)
    \/ \E h \in Handles, value \in BOOLEAN : SetArchived(h, value)
    \/ \E h \in Handles, value \in 0..1 : SetData(h, value)
    \/ \E h \in Handles : Refresh(h)
    \/ \E h \in Handles : Release(h)
    \/ \E h \in Handles, force \in BOOLEAN, failAt \in 0..MaxStatements : Save(h, force, failAt)
    \/ \E h \in Handles, value \in BOOLEAN : OtherSaveHeld(h, value)
    \/ \E h \in Handles : ReadEarliest(h)
    \/ \E h \in Handles : Capture(h)

\* The chain schema with no C row yet.
InitHistory ==
    /\ running = NotRunning
    /\ schema = "chain"
    /\ db = [key \in Keys |->
                IF key[1] = "C" THEN NoRow
                ELSE [exists |-> TRUE, archived |-> FALSE, archive_points |-> <<>>, data |-> 0]]
    /\ inst = [h \in Handles |-> NoInstance]
    /\ last = Idle
    /\ cascaded = {}

SpecHistory == InitHistory /\ [][NextHistory]_vars

\* The program assigns and saves, and tries to save and delete the snapshots
\* of its instances.
NextSnapshot ==
    \/ \E h \in Handles, key \in Keys : Load(h, key)
    \/ \E h \in Handles, m \in Models, archived \in BOOLEAN : New(h, m, archived)
    \/ \E h \in Handles, value \in BOOLEAN : SetArchived(h, value)
    \/ \E h \in Handles, value \in 0..1 : SetData(h, value)
    \/ \E h \in Handles : Refresh(h)
    \/ \E h \in Handles : Release(h)
    \/ \E h \in Handles, force \in BOOLEAN, failAt \in 0..MaxStatements : Save(h, force, failAt)
    \/ \E h \in Handles, v \in 0..MaxVersion, force \in BOOLEAN : SnapshotSave(h, v, force)
    \/ \E h \in Handles, v \in 0..MaxVersion, force \in BOOLEAN : SnapshotDelete(h, v, force)

SpecSnapshot == InitHistory /\ [][NextSnapshot]_vars

\* update() is at its end.
CascadeDone(s, c) == c.next > Len(Expand(s, c.key[1]))

\* update() run alone, from its first bulk update to its last.
RunCascade(s, d, c) ==
    NodeUpdate(s, d, Expand(s, c.key[1]), c.key[2], c.archived, Lower(c.key[1]))

\* A session saves a row while no cascade is in flight.
QuietSave(key, value) ==
    /\ ~running.on
    /\ OtherSave(key, value)

\* Two sessions enter node.update() for instances of different models, so with
\* different points; base is the store they start from.
StartCascades(k1, a1, k2, a2) ==
    /\ ~running.on
    /\ db[k1].exists /\ db[k2].exists
    /\ Lower(k1[1]) # Lower(k2[1])
    /\ running' = [on |-> TRUE, base |-> db,
                   c |-> [t \in Sessions |-> IF t = "p" THEN CascadeOf(k1, a1)
                                                       ELSE CascadeOf(k2, a2)],
                   order |-> <<>>]
    /\ last' = Idle
    /\ UNCHANGED <<schema, db, inst, cascaded>>

\* Session t runs the update_queryset() call of its next node: one bulk update.
BulkUpdate(t) ==
    LET c == running.c[t]
        nodes == Expand(schema, c.key[1])
    IN /\ running.on
       /\ ~CascadeDone(schema, c)
       /\ db' = UpdateQueryset(db, QuerysetFilter(schema, db, nodes, c.next, c.key[2]),
                               c.archived, Lower(c.key[1]))
       /\ running' = [running EXCEPT !.c[t].next = @ + 1, !.order = Append(@, t)]
       /\ last' = Idle
       /\ UNCHANGED <<schema, inst, cascaded>>

\* Both calls of update() have returned.
FinishCascades ==
    /\ running.on
    /\ \A t \in Sessions : CascadeDone(schema, running.c[t])
    /\ running' = NotRunning
    /\ last' = Idle
    /\ UNCHANGED <<schema, db, inst, cascaded>>

\* Sessions save rows one at a time; now and then the cascades of two of them
\* run at the same time, one bulk update after the other in any order.
NextConcurrent ==
    \/ \E key \in Keys, value \in BOOLEAN : QuietSave(key, value)
    \/ \E k1, k2 \in Keys, a1, a2 \in BOOLEAN : StartCascades(k1, a1, k2, a2)
    \/ \E t \in Sessions : BulkUpdate(t)
    \/ FinishCascades

SpecConcurrent == Init /\ [][NextConcurrent]_vars

\* A store with room for new rows: the last A row and the C rows are not there
\* yet, nor is a B row that would name a missing A row.
InitCreate ==
    /\ running = NotRunning
    /\ schema \in SchemaNames
    /\ db = [key \in Keys |->
                IF \/ key[1] = "C"
                   \/ key[1] = "A" /\ key[2] = MaxRoots
                   \/ key[1] = "B" /\ \E f \in SeqToSet(Fields(schema)) :
                                          f.model = "B" /\ FkOf(f, key[2]) = MaxRoots
                THEN NoRow
                ELSE [exists |-> TRUE, archived |-> FALSE, archive_points |-> <<>>, data |-> 0]]
    /\ inst = [h \in Handles |-> NoInstance]
    /\ last = Idle
    /\ cascaded = {}

\* The program creates instances, with and without archive_points, saves them
\* and goes on working with them.
NextCreate ==
    \/ \E h \in Handles, m \in Models, archived \in BOOLEAN : New(h, m, archived)
    \/ \E h \in Handles, m \in Models, archived \in BOOLEAN, p \in Points :
           NewWithPoints(h, m, archived, <<p>>)
    \/ \E h \in Handles, value \in BOOLEAN : SetArchived(h, value)
    \/ \E h \in Handles : Release(h)
    \/ \E h \in Handles, force \in BOOLEAN, failAt \in 0..MaxStatements : Save(h, force, failAt)

SpecCreate == InitCreate /\ [][NextCreate]_vars

(***************************************************************************)
(* Properties                                                              *)
(***************************************************************************)
\* The rows that depend on the row root: a chain of relation fields (foreign
\* keys and one-to-one fields) leads from them to it.
RECURSIVE DependsClosure(_, _, _)
DependsClosure(s, d, rows) ==
    LET more == {key \in Keys :
                    /\ d[key].exists
                    /\ \E f \in SeqToSet(Fields(s)) :
                           f.model = key[1] /\ <<f.to, FkOf(f, key[2])>> \in rows}
    IN IF more \subseteq rows THEN rows ELSE DependsClosure(s, d, rows \cup more)

Dependents(s, d, root) == DependsClosure(s, d, {root}) \ {root}

SavedOk == last.op = "save" /\ last.outcome = Ok

\* C1: after a save that archives an existing instance, every row that depends
\* on it, at any depth and in every schema, is archived and carries the
\* instance's lower-cased model name in archive_points.
C1_ArchiveReachesEveryDependent ==
    (SavedOk /\ last.casc = "archive") =>
        \A key \in Dependents(schema, db, last.key) :
            db[key].archived /\ Contains(db[key].archive_points, Lower(last.key[1]))

\* C2: an unarchive cascade turns a row's archived flag off only when no other
\* ancestor whose archive cascade reached the row is still archived.
C2_UnarchivedOnlyWhenNoAncestorArchived ==
    (SavedOk /\ last.casc = "unarchive") =>
        \A key \in last.touched :
            ~db[key].archived =>
                ~\E p \in cascaded :
                    p[2] = key /\ p[1] # last.key /\ db[p[1]].exists /\ db[p[1]].archived

\* C3: an unarchive cascade with tag p removes p from every row it selects,
\* turns archived off on exactly the selected rows whose archive_points was
\* <<p>>, and a selected row with another tag keeps that tag and its archived flag.
C3_UnarchiveCascade ==
    [][(last'.op = "save" /\ last'.outcome = Ok /\ last'.casc = "unarchive") =>
          LET own == last'.key
              p == Lower(own[1])
          IN \A key \in CascadeRows(schema, db, own[1], own[2]) \ {own} :
                 /\ db'[key].archive_points = ArrayRemove(db[key].archive_points, p)
                 /\ ~Contains(db'[key].archive_points, p)
                 /\ db'[key].archived =
                        (IF db[key].archive_points = <<p>> THEN FALSE ELSE db[key].archived)
                 /\ \A q \in Points \ {p} :
                        Contains(db[key].archive_points, q) =>
                            /\ Contains(db'[key].archive_points, q)
                            /\ db'[key].archived = db[key].archived]_vars

\* An unarchive cascade turned one row off and left another, which carries a
\* second tag, archived.
C3_Witness ==
    /\ SavedOk /\ last.casc = "unarchive"
    /\ \E k1 \in last.touched : ~db[k1].archived /\ db[k1].archive_points = <<>>
    /\ \E k2 \in last.touched : db[k2].archived /\ db[k2].archive_points # <<>>

\* C4: every persisted row with a non-empty archive_points is archived.
C4_PointsImplyArchived ==
    \A key \in Keys :
        (db[key].exists /\ db[key].archive_points # <<>>) => db[key].archived

\* The save step of instance h.
SaveStepOf(h) == last'.op = "save" /\ last'.h = h /\ inst[h].live

\* C5: a save of an existing instance whose archived flag went from true (in
\* original) to false while its archive_points is non-empty raises
\* CannotModifyObjectWithArchivedParentError, forced or not, and changes no row.
C5_UnarchiveWithPointsRejected ==
    [][\A h \in Handles :
          (/\ SaveStepOf(h)
           /\ ~inst[h].adding
           /\ ~inst[h].archived /\ Original(inst[h]).archived
           /\ inst[h].archive_points # <<>>)
          => (last'.outcome = ParentError /\ db' = db)]_vars

\* A forced save was rejected for its archived parent, the row has dependents.
C5_Witness ==
    /\ last.op = "save" /\ last.outcome = ParentError /\ last.force
    /\ ~inst[last.h].archived /\ inst[last.h].archive_points # <<>>
    /\ db[last.key].archived

\* C6: a save of an existing, archived instance whose archived flag equals
\* original's, of a model that must be unarchived to modify: unforced it raises
\* CannotModifyArchivedObjectError and changes no row; forced it raises no
\* archive error and, unless the store fails, persists the instance's row.
C6_ArchivedNeedsForce ==
    [][\A h \in Handles :
          (/\ SaveStepOf(h)
           /\ ~inst[h].adding
           /\ inst[h].archived /\ Original(inst[h]).archived
           /\ MustBeUnarchivedToModify(schema, inst[h].model))
          => IF ~last'.force
             THEN last'.outcome = ArchivedError /\ db' = db
             ELSE /\ last'.outcome \in {Ok, StoreError}
                  /\ last'.outcome = StoreError =>
                         (last'.failAt # 0 \/ ~IntegrityOk(schema, db, last'.key))
                  /\ last'.outcome = Ok =>
                         db' = WriteRow(db, last'.key, inst[h])]_vars

\* A forced save persisted a changed field of an archived row.
C6_Witness ==
    /\ SavedOk /\ last.force /\ last.casc = "none"
    /\ inst[last.h].history # <<>>
    /\ inst[last.h].history[Len(inst[last.h].history)].obj.archived
    /\ inst[last.h].history[Len(inst[last.h].history)].obj.data # inst[last.h].data
    /\ MustBeUnarchivedToModify(schema, last.key[1])
    /\ db[last.key].archived /\ db[last.key].data = inst[last.h].data

\* C7: delete() of an unarchived instance, unforced, of a model that must be
\* archived to delete raises CannotDeleteUnarchivedObjectError; delete() of an
\* archived instance that a protected foreign key still refers to raises
\* CannotDeleteObjectError; in both cases no row is removed.
C7_DeleteGuards ==
    [][\A h \in Handles :
          (last'.op = "delete" /\ last'.h = h /\ inst[h].live) =>
              /\ (~inst[h].archived /\ ~last'.force
                    /\ MustBeArchivedToDelete(schema, inst[h].model))
                 => (last'.outcome = UnarchivedError /\ db' = db)
              /\ (inst[h].archived
                    /\ Protected(schema, db, Collect(schema, db, {<<inst[h].model, inst[h].id>>})))
                 => (last'.outcome = DeleteError /\ db' = db)]_vars

\* The delete of an archived instance was refused for a protected reference.
C7_Witness ==
    /\ last.op = "delete" /\ last.outcome = DeleteError
    /\ inst[last.h].archived /\ db[last.key].exists /\ db[last.key].archived

\* C8: a save changes the store all or nothing: a save that raises changes no
\* row, and a save that returns has applied every bulk update of its cascade
\* and written its own row.
C8_SaveAllOrNothing ==
    [][\A h \in Handles :
          SaveStepOf(h) =>
              IF last'.outcome # Ok THEN db' = db
              ELSE db' = WriteRow(
                     IF last'.casc = "none" THEN db
                     ELSE NodeUpdate(schema, db, Expand(schema, inst[h].model), inst[h].id,
                                     last'.casc = "archive", Lower(inst[h].model)),
                     last'.key, inst[h])]_vars

\* The store failed after at least one bulk update of a cascade had run.
C8_Witness ==
    /\ last.op = "save" /\ last.outcome = StoreError /\ last.casc # "none"
    /\ last.failAt >= 2
    /\ Dependents(schema, db, last.key) # {}

\* C9: running the archive cascade of an instance again over the rows the
\* cascade has just left changes no row; and a save that runs the archive
\* cascade of the same instance again, right after the save that ran it over
\* the instance's existing row, changes no row.
C9_ArchiveTwiceChangesNothing ==
    [][/\ \A h \in Handles :
             (SaveStepOf(h) /\ last'.outcome = Ok /\ last'.casc = "archive") =>
                 LET nodes == Expand(schema, inst[h].model)
                     point == Lower(inst[h].model)
                     once == NodeUpdate(schema, db, nodes, inst[h].id, TRUE, point)
                 IN NodeUpdate(schema, once, nodes, inst[h].id, TRUE, point) = once
       /\ (/\ last.op = "save" /\ last.outcome = Ok /\ last.casc = "archive"
           /\ ~last.inserted
           /\ last'.op = "save" /\ last'.outcome = Ok /\ last'.casc = "archive"
           /\ last'.h = last.h /\ last'.key = last.key)
          => db' = db]_vars

\* The archive cascade ran a second time over rows that carry its tag.
C9_Witness ==
    /\ SavedOk /\ last.casc = "archive" /\ last.rerun
    /\ \E key \in Dependents(schema, db, last.key) :
           db[key].archive_points = <<Lower(last.key[1])>>

\* C10: in the chain A <- B <- C, archiving an A row whose B and C rows are
\* unarchived without tags leaves them archived with archive_points <<"a">>,
\* and unarchiving it then leaves them unarchived without tags.
C10_ChainRoundTrip ==
    [][\A h \in Handles :
          (SaveStepOf(h) /\ last'.outcome = Ok /\ schema = "chain" /\ inst[h].model = "A") =>
              LET deps == Dependents(schema, db, <<"A", inst[h].id>>)
              IN /\ (/\ last'.casc = "archive"
                     /\ \A key \in deps : ~db[key].archived /\ db[key].archive_points = <<>>)
                    => \A key \in deps :
                           db'[key].archived /\ db'[key].archive_points = <<"a">>
                 /\ (/\ last'.casc = "unarchive"
                     /\ \A key \in deps : db[key].archived /\ db[key].archive_points = <<"a">>)
                    => \A key \in deps :
                           ~db'[key].archived /\ db'[key].archive_points = <<>>]_vars

\* Unarchiving an A row of the chain turned its B and C rows off.
C10_Witness ==
    /\ schema = "chain" /\ SavedOk /\ last.casc = "unarchive" /\ last.key[1] = "A"
    /\ last.touched = Dependents(schema, db, last.key)
    /\ {key[1] : key \in last.touched} = {"B", "C"}
    /\ \A key \in last.touched : ~db[key].archived /\ db[key].archive_points = <<>>

\* A step in which instance h, not newly created, has a declared field assigned
\* (an assignment, or the assignments of refresh_from_db).
AssignStepOf(h) ==
    /\ inst[h].live /\ ~inst[h].adding /\ inst'[h].live
    /\ last'.op \in {"none", "refresh_from_db"} /\ db' = db /\ inst'[h].assigned

\* C11: every assignment to a declared field of an instance that is not newly
\* created leaves a snapshot for the current version; after the first
\* assignment of the version that snapshot holds the field values from before
\* the assignment, and a later assignment of the version leaves the history as
\* it was.
C11_AssignmentKeepsFirstValues ==
    [][\A h \in Handles :
          AssignStepOf(h) =>
              LET i == inst[h]
                  j == inst'[h]
                  v == i.history_version
              IN /\ j.history_version = v
                 /\ HasVersion(j, v)
                 /\ IF i.assigned
                    THEN j.history = i.history
                    ELSE Snapshot(j, v) = CopyModelInstance(i)
                 /\ \A k \in 1..Len(i.history) : j.history[k] = i.history[k]]_vars

\* C12: history_version is 0 on a new or loaded instance, is one more after
\* every save() that completes without error, and is unchanged by every other
\* step on the instance: a save() that raises, an assignment, a capture.
C12_VersionCountsSaves ==
    [][\A h \in Handles :
          /\ (~inst[h].live /\ inst'[h].live) => inst'[h].history_version = 0
          /\ (inst[h].live /\ inst'[h].live) =>
                 inst'[h].history_version =
                     IF SaveStepOf(h) /\ last'.outcome = Ok
                     THEN inst[h].history_version + 1
                     ELSE inst[h].history_version]_vars

\* C13: capture_history() returns the snapshot of the current history_version;
\* when one is stored already the history is unchanged, otherwise exactly one
\* snapshot, a copy of the instance, is stored under the current version; the
\* instance is otherwise as it was.
C13_CaptureOncePerVersion ==
    [][\A h \in Handles :
          (last'.op = "capture_history" /\ last'.h = h) =>
              LET i == inst[h]
                  j == inst'[h]
                  v == i.history_version
              IN /\ last'.ret = v
                 /\ HasVersion(j, v)
                 /\ Cardinality({k \in 1..Len(j.history) : j.history[k].version = v}) = 1
                 /\ IF HasVersion(i, v)
                    THEN j.history = i.history
                    ELSE j.history = Append(i.history,
                                            [version |-> v, obj |-> CopyModelInstance(i)])
                 /\ j = [i EXCEPT !.history = j.history]]_vars

\* capture_history() found the snapshot of the current version, taken before an
\* assignment, and stored nothing.
C13_Witness ==
    \E h \in Handles :
        LET i == inst[h]
        IN /\ last.op = "capture_history" /\ last.h = h /\ ~last.inserted
           /\ i.history_version > 0 /\ Len(i.history) > 1
           /\ Snapshot(i, last.ret) # CopyModelInstance(i)

\* C14: earliest_version returns the snapshot stored under version 0; when
\* none is stored under version 0 at the first access, the snapshot it captures
\* is stored under version 0, whatever history_version is.
C14_EarliestIsVersionZero ==
    [][\A h \in Handles :
          (last'.op = "earliest_version" /\ last'.h = h) =>
              /\ last'.ret = 0
              /\ HasVersion(inst'[h], 0)
              /\ ~HasVersion(inst[h], 0) =>
                     Snapshot(inst'[h], 0) = CopyModelInstance(inst[h])]_vars

\* C15: two consecutive reads of earliest_version return the same snapshot
\* object; refresh_from_db() clears the memoized earliest_version, and a read
\* that follows it returns a snapshot of the reloaded state.
C15_EarliestMemoUntilReload ==
    [][\A h \in Handles :
          /\ (/\ last.op = "earliest_version" /\ last.h = h
              /\ last'.op = "earliest_version" /\ last'.h = h)
             => (last'.ret = last.ret /\ inst'[h] = inst[h])
          /\ (last'.op = "refresh_from_db" /\ last'.h = h) =>
                 LET j == inst'[h]
                 IN /\ j.earliest = NotCached
                    /\ Snapshot(AfterEarliest(j), EarliestKey(j)) = CopyModelInstance(j)]_vars

\* C16: no step on an instance (assignment, reload, save, read) changes or
\* removes a snapshot of its history; save() and delete() of a snapshot raise
\* an error and leave the store as it was.
C16_SnapshotsFrozen ==
    [][\A h \in Handles :
          /\ (inst[h].live /\ inst'[h].live) =>
                 /\ Len(inst'[h].history) >= Len(inst[h].history)
                 /\ \A k \in 1..Len(inst[h].history) :
                        inst'[h].history[k] = inst[h].history[k]
          /\ (last'.op \in {"snapshot.save", "snapshot.delete"} /\ last'.h = h) =>
                 /\ last'.outcome # Ok
                 /\ db' = db
                 /\ inst' = inst]_vars

\* The program tried, with force, to save an archived snapshot that differs
\* from its instance and from the row, after the instance was saved.
C16_Witness ==
    \E h \in Handles :
        LET i == inst[h]
        IN /\ last.op = "snapshot.save" /\ last.h = h /\ last.force
           /\ i.history_version > 0
           /\ db[last.key].exists
           /\ Snapshot(i, last.ret).archived
           /\ Snapshot(i, last.ret) # CopyModelInstance(i)
           /\ Snapshot(i, last.ret).archived # db[last.key].archived

\* The models on the path from node k of the tree up to the root.
RECURSIVE PathModels(_, _)
PathModels(nodes, k) ==
    IF nodes[k].parent = 0 THEN <<nodes[k].model>>
    ELSE <<nodes[k].model>> \o PathModels(nodes, nodes[k].parent)

\* C17: in the tree expand() builds, for every root model of the schema, no
\* model appears twice on the path from a node to the root.
C17_NoTypeTwiceOnPath ==
    \A m \in Models :
        LET nodes == Expand(schema, m)
        IN \A k \in 1..Len(nodes) :
               LET path == PathModels(nodes, k)
               IN \A a, b \in 1..Len(path) : a # b => path[a] # path[b]

\* The relations expand() follows in schema s, as (source model, target model),
\* and the pairs joined by a chain of them.
ExpandEdges(s) ==
    {pq \in Models \X Models :
        \E f \in SeqToSet(ExpandFilter(s, pq[1], <<>>)) : f.related_model = pq[2]}

RECURSIVE EdgeClosure(_)
EdgeClosure(e) ==
    LET joined == {pq \in Models \X Models :
                      \E p \in e, q \in e : p[2] = q[1] /\ pq = <<p[1], q[2]>>}
    IN IF joined \subseteq e THEN e ELSE EdgeClosure(e \cup joined)

Acyclic(s) == \A m \in Models : <<m, m>> \notin EdgeClosure(ExpandEdges(s))

\* The child nodes of the tree whose parent has model src.
ChildrenOf(nodes, src) == {k \in 2..Len(nodes) : nodes[nodes[k].parent].model = src}

\* The key expand() records for node k.
KeyOf(nodes, k) == <<Lower(nodes[nodes[k].parent].model), Lower(nodes[k].model)>>

RECURSIVE PathKeys(_, _)
PathKeys(nodes, k) ==
    IF nodes[k].parent = 0 THEN <<>>
    ELSE <<KeyOf(nodes, k)>> \o PathKeys(nodes, nodes[k].parent)

\* C18 as stated: over the whole expansion, child nodes are created at most
\* once for each (source type, target type) pair.
C18_PairAtMostOnce ==
    \A m \in Models :
        LET nodes == Expand(schema, m)
        IN \A src, tgt \in Models :
               Cardinality({k \in ChildrenOf(nodes, src) : nodes[k].model = tgt}) <= 1

\* What C18 says of the expansions of schema s.
FieldAtMostOnce(s) ==
    \A m \in Models :
        LET nodes == Expand(s, m)
            kept == ExpandFilter(s, m, <<>>)
        IN /\ \A k \in 1..Len(nodes) :
                  LET keys == PathKeys(nodes, k)
                  IN \A a, b \in 1..Len(keys) : a # b => keys[a] # keys[b]
           /\ Cardinality({k \in 2..Len(nodes) : nodes[k].parent = 1}) = Len(kept)
           /\ Acyclic(s) =>
                  \A src \in Models :
                      \A k1, k2 \in ChildrenOf(nodes, src) :
                          nodes[k1].relation_field = nodes[k2].relation_field => k1 = k2

FieldAtMostOnceSchemas == {s \in SchemaNames : FieldAtMostOnce(s)}

\* C18: expand() ends, no path of the tree being longer than the number of
\* (source, target) keys; every relation field the root keeps gets a child
\* node of its own, two fields to one type included; and in a schema without
\* cycles a (source type, relation field) pair gets at most one child node over
\* the whole expansion.
C18_FieldAtMostOnce == schema \in FieldAtMostOnceSchemas

\* An archive cascade ran over a tree with two child nodes for the pair (A, B).
C18_Witness ==
    /\ SavedOk /\ last.casc = "archive" /\ last.key[1] = "A"
    /\ Cardinality({k \in ChildrenOf(Expand(schema, "A"), "A") :
                        Expand(schema, "A")[k].model = "B"}) = 2

\* C19: when save() of an existing instance evaluates its archive transition,
\* original.archived is the archived value the instance had when it was loaded
\* or at its latest successful save.
C19_OriginalIsPersistedState ==
    [][\A h \in Handles :
          (SaveStepOf(h) /\ ~inst[h].adding) =>
              Original(inst[h]).archived = inst[h].persisted]_vars

\* Stores whose rows have the same archived flag and the same set of
\* archive_points.
SameRows(d1, d2) ==
    \A key \in Keys :
        /\ d1[key].exists = d2[key].exists
        /\ d1[key].archived = d2[key].archived
        /\ SeqToSet(d1[key].archive_points) = SeqToSet(d2[key].archive_points)

\* C20: when two cascades with different points have run their bulk updates
\* in any interleaving, every row has the archived flag and the set of
\* archive_points that running the two cascades one after the other gives, in
\* either order.
C20_InterleavingIsSerial ==
    (running.on /\ \A t \in Sessions : CascadeDone(schema, running.c[t])) =>
        /\ SameRows(db, RunCascade(schema, RunCascade(schema, running.base, running.c["p"]),
                                   running.c["q"]))
        /\ SameRows(db, RunCascade(schema, RunCascade(schema, running.base, running.c["q"]),
                                   running.c["p"]))

\* An archive cascade and an unarchive cascade have finished, a bulk update of
\* one having run between two of the other, and a row both select was changed.
C20_Witness ==
    /\ running.on /\ \A t \in Sessions : CascadeDone(schema, running.c[t])
    /\ running.c["p"].archived # running.c["q"].archived
    /\ \E i, j, k \in 1..Len(running.order) :
           i < j /\ j < k /\ running.order[i] = running.order[k]
                 /\ running.order[j] # running.order[i]
    /\ \E key \in Keys :
           /\ \A t \in Sessions :
                  key \in CascadeRows(schema, db, running.c[t].key[1], running.c[t].key[2])
           /\ db[key] # running.base[key]
           /\ running.base[key].archive_points # <<>>

\* C21: one call of update() on an expanded root issues exactly one bulk
\* update for every non-root node, a node's before those of its children, all
\* with the instance's point and the same archived flag, also below a node
\* whose update selected no row; the rows other than the instance's own are
\* afterwards as these updates leave them.
C21_OneUpdatePerNode ==
    [][\A h \in Handles :
          (SaveStepOf(h) /\ last'.outcome = Ok /\ last'.casc # "none") =>
              LET nodes == Expand(schema, inst[h].model)
                  calls == last'.calls
              IN /\ Len(calls) = Len(nodes) - 1
                 /\ \A k \in 2..Len(nodes) :
                        Cardinality({c \in 1..Len(calls) : calls[c].node = k}) = 1
                 /\ \A c1, c2 \in 1..Len(calls) :
                        nodes[calls[c2].node].parent = calls[c1].node => c1 < c2
                 /\ \A c \in 1..Len(calls) :
                        /\ calls[c].point = Lower(inst[h].model)
                        /\ calls[c].archived = inst[h].archived
                 /\ \A key \in Keys \ {last'.key} :
                        db'[key] = Update(schema, db, last'.key, inst[h].archived).d[key]]_vars

\* A save ran a cascade in which a node's update selected no row and the
\* update of its child node was issued all the same.
C21_Witness ==
    /\ SavedOk /\ last.casc # "none"
    /\ \E c1, c2 \in 1..Len(last.calls) :
           /\ last.calls[c1].rows = {}
           /\ Expand(schema, last.key[1])[last.calls[c2].node].parent = last.calls[c1].node

\* C22: save() of an instance that is not persisted yet runs no cascade and
\* issues no bulk update, raises neither archive guard error, and leaves every
\* row but the instance's own as it was, whatever archived, archive_points and
\* force are; when it commits, the own row holds the instance's values.
C22_NewInstanceSavesOwnRowOnly ==
    [][\A h \in Handles :
          (SaveStepOf(h) /\ inst[h].adding) =>
              /\ last'.casc = "none" /\ last'.calls = <<>>
              /\ last'.outcome \notin {ParentError, ArchivedError}
              /\ \A key \in Keys \ {last'.key} : db'[key] = db[key]
              /\ IF last'.outcome = Ok
                 THEN /\ ~db[last'.key].exists /\ db'[last'.key].exists
                      /\ db'[last'.key].archived = inst[h].archived
                      /\ db'[last'.key].archive_points = inst[h].archive_points
                 ELSE db' = db]_vars

\* A new archived instance of the root model, given archive_points, was saved
\* without force and its row is in the store, next to unarchived dependents.
C22_Witness ==
    /\ SavedOk /\ last.inserted /\ ~last.force
    /\ last.key[1] = "A"
    /\ db[last.key].archived /\ db[last.key].archive_points # <<>>
    /\ \E key \in Keys : key[1] = "B" /\ db[key].exists /\ ~db[key].archived

\* C23: a dependent row that was archived with empty archive_points when the
\* instance's latest archive cascade reached it is archived with empty
\* archive_points again once a save of the instance has run the unarchive
\* cascade.
C23_DirectArchiveSurvivesRoundTrip ==
    [][\A h \in Handles :
          (SaveStepOf(h) /\ last'.outcome = Ok /\ last'.casc = "unarchive") =>
              \A key \in inst[h].direct :
                  db'[key].archived /\ db'[key].archive_points = <<>>]_vars

\* C24: a save of instance x changes, besides x's own row, only rows that
\* depend on x (a chain of relation fields leads from them to x's id), and of
\* these only archived and archive_points.
C24_CascadeChangesDependentsOnly ==
    [][\A h \in Handles :
          SaveStepOf(h) =>
              \A key \in Keys \ {last'.key} :
                  db'[key] # db[key] =>
                      /\ key \in Dependents(schema, db, last'.key)
                      /\ db'[key].exists = db[key].exists
                      /\ db'[key].data = db[key].data]_vars

====
